---- MODULE Spec2Model ----
(***************************************************************************)
(* A model of reddit_scraper: the tree builder of scraper.py               *)
(* (scrape_reddit_post, parse_comment, count_all), the depth statistics of *)
(* server.py (count_comments_recursive) and the /scrape request handler    *)
(* (ScrapeRequest.validate_reddit_url, scrape_reddit).                     *)
(*                                                                         *)
(* Python values are tagged records, so that a value of one type never     *)
(* equals a value of another: None, str, int, bool, list and dict.  A key  *)
(* that a dict does not hold is the marker Absent.                         *)
(***************************************************************************)
EXTENDS Integers, Sequences, FiniteSets, TLC

\* ------------------------------------------------------------------ bounds

\* The largest number of entries (at all nesting levels together) of a
\* fetched reply listing of the shape family.
MaxNodes == 4

\* ------------------------------------------------------------- the state

\* One standalone run of the scraper module: its position, its arguments,
\* the result it holds, what it wrote to standard output and to the
\* diagnostic stream, and its exit status.
VARIABLES cli_pc, cli_argv, cli_result, cli_stdout, cli_stderr, cli_exit

\* Several /scrape requests in flight at once: the state of each.
VARIABLES reqs

\* ------------------------------------------------------------ Python values

Absent == [t |-> "absent"]
PyNone == [t |-> "NoneType"]
PyStr(s) == [t |-> "str", s |-> s]
PyInt(n) == [t |-> "int", n |-> n]
PyBool(b) == [t |-> "bool", b |-> b]
PyList(xs) == [t |-> "list", items |-> xs]

\* bool(v): Python's truth value of v.
Truthy(v) ==
    CASE v.t = "NoneType" -> FALSE
      [] v.t = "bool" -> v.b
      [] v.t = "int" -> v.n # 0
      [] v.t = "str" -> v.s # ""
      [] v.t = "list" -> v.items # <<>>
      [] v.t = "dict" -> \E k \in DOMAIN v \ {"t"} : v[k] # Absent

\* str(v), as an f-string renders v.
Format(v) ==
    CASE v.t = "str" -> v.s
      [] v.t = "NoneType" -> "None"
      [] v.t = "int" -> ToString(v.n)
      [] v.t = "bool" -> IF v.b THEN "True" ELSE "False"

\* d.get(k, default) on a dict whose absent keys hold Absent.
Get(d, k, default) == IF d[k] = Absent THEN default ELSE d[k]

\* ------------------------------------------------------- the raw payload

\* A replies container {"kind": .., "data": {"children": [..]}}.
DataDict(children) == [t |-> "dict", children |-> children]
RepliesDict(kind, data) == [t |-> "dict", kind |-> kind, data |-> data]
Container(entries) == RepliesDict(PyStr("Listing"), DataDict(PyList(entries)))

\* The payload of a listing entry: the keys parse_comment reads.
Payload(id, author, flair, created, score, body, replies) ==
    [id |-> id, author |-> author, author_flair_text |-> flair,
     created_utc |-> created, score |-> score, body |-> body,
     replies |-> replies]

Entry(kind, data) == [kind |-> kind, data |-> data]

\* A comment as the platform sends it, with every key present.
PlainPayload(id, replies) ==
    Payload(PyStr(id), PyStr("bob"), PyNone, PyInt(1700), PyInt(5),
            PyStr("hi"), replies)

\* --------------------------------------------------------------- URLs

\* A URL is a sequence of tokens, each a piece of text that the string
\* operations of the code treat as a whole: no token holds 'reddit.com'
\* inside it except the token "reddit.com" itself.
WordTokens == {"python", "abc123", "bob"}

\* pat in v
Contains(v, pat) ==
    \E i \in 1..(Len(v) - Len(pat) + 1) : SubSeq(v, i, i + Len(pat) - 1) = pat

\* v.replace(old, new): every occurrence, left to right.
RECURSIVE Replace(_, _, _)
Replace(v, old, new) ==
    IF Len(v) < Len(old) THEN v
    ELSE IF SubSeq(v, 1, Len(old)) = old
         THEN new \o Replace(SubSeq(v, Len(old) + 1, Len(v)), old, new)
         ELSE <<Head(v)>> \o Replace(Tail(v), old, new)

\* The host rewriting at the head of scrape_reddit_post.
scraper_normalize(u) ==
    IF Contains(u, <<"reddit.com">>)
    THEN LET w == Replace(u, <<"www.", "reddit.com">>, <<"old.", "reddit.com">>)
         IN  IF ~Contains(w, <<"old.", "reddit.com">>)
             THEN Replace(w, <<"reddit.com">>, <<"old.", "reddit.com">>)
             ELSE w
    ELSE u

\* The host rewriting of ScrapeRequest.validate_reddit_url.
validator_normalize(v) ==
    IF Contains(v, <<"reddit.com">>)
    THEN LET w == Replace(v, <<"www.", "reddit.com">>, <<"reddit.com">>)
         IN  IF ~Contains(w, <<"old.", "reddit.com">>)
             THEN Replace(w, <<"reddit.com">>, <<"old.", "reddit.com">>)
             ELSE w
    ELSE v

\* The pattern without its /comments/ part.
url_matches_community(v) ==
    /\ Len(v) >= 5
    /\ v[1] \in {"http://", "https://"}
    /\ SubSeq(v, 2, 4) = <<"old.", "reddit.com", "/r/">>
    /\ v[5] \in WordTokens

\* re.match(r'https?://old\.reddit\.com/r/\w+/comments/', v): from the start
\* of v, a scheme, the host, /r/, one or more word characters, /comments/.
url_matches(v) ==
    /\ Len(v) >= 6
    /\ v[1] \in {"http://", "https://"}
    /\ SubSeq(v, 2, 4) = <<"old.", "reddit.com", "/r/">>
    /\ \E k \in 5..(Len(v) - 1) :
          /\ \A i \in 5..k : v[i] \in WordTokens
          /\ v[k + 1] = "/comments/"

\* ------------------------------------------------------- fetched inputs

\* The replies values that mean "no replies": the key absent, null, false,
\* the empty string, zero and the empty dict (all falsy); and the truthy
\* values that are no dict: true, a non-empty string, a number, a list.
FalsyReplies ==
    {Absent, PyNone, PyBool(FALSE), PyStr(""), PyInt(0),
     RepliesDict(Absent, Absent)}
NonDictReplies ==
    {PyBool(TRUE), PyStr("more"), PyInt(1),
     PyList(<<Entry("t1", PlainPayload("c", PyStr("")))>>)}
\* Non-empty dicts that hold no child: no "data", no "children", or an
\* empty children list.
ChildlessDicts ==
    {RepliesDict(PyStr("Listing"), Absent),
     RepliesDict(PyStr("Listing"), DataDict(Absent)),
     Container(<<>>)}
SentinelReplies == FalsyReplies \cup NonDictReplies \cup ChildlessDicts

\* A payload that looks like a comment, under a kind tag that is not 't1'.
MorePayload(replies) ==
    Payload(PyStr("m"), PyStr("eve"), PyStr("Mod"), PyInt(1700), PyInt(1),
            PyStr("load more"), replies)

\* Listings of exactly n entries, all nesting levels together.  An entry is
\* a comment (kind 't1', id a or b), or an entry of kind 'more' that
\* carries a comment-like payload (with nested replies) or no payload.
RECURSIVE ListingsExact(_)
RECURSIVE EntriesExact(_)
EntriesExact(k) ==
    IF k = 1
    THEN {Entry("t1", PlainPayload(i, PyStr(""))) : i \in {"a", "b"}}
         \cup {Entry("more", MorePayload(PyStr(""))), Entry("more", Absent)}
    ELSE UNION {
           {Entry("t1", PlainPayload(i, Container(l))) : i \in {"a", "b"}}
           \cup {Entry("more", MorePayload(Container(l)))}
           : l \in ListingsExact(k - 1)}
ListingsExact(n) ==
    IF n = 0 THEN {<<>>}
    ELSE UNION { {<<e>> \o r : e \in EntriesExact(k), r \in ListingsExact(n - k)}
                 : k \in 1..n }

ShapeListings == UNION {ListingsExact(n) : n \in 0..MaxNodes}

\* One comment whose replies value is a sentinel, alone or followed by a
\* second comment.
SentinelListings ==
    UNION { {<<Entry("t1", PlainPayload("a", r))>>,
             <<Entry("t1", PlainPayload("a", r)),
               Entry("t1", PlainPayload("b", PyStr("")))>>}
            : r \in SentinelReplies }

\* One comment whose fields are each absent, null or set.
FieldListings ==
    { <<Entry("t1", Payload(id, author, flair, created, score, body, PyStr("")))>> :
        id \in {Absent, PyNone, PyStr("a")},
        author \in {Absent, PyNone, PyStr("bob"), PyStr("[deleted]")},
        flair \in {Absent, PyNone, PyStr(""), PyStr("Mod")},
        created \in {Absent, PyNone, PyInt(1700)},
        score \in {Absent, PyNone, PyInt(5)},
        body \in {Absent, PyNone, PyStr("hi")} }

\* The listing of the specification's worked example: comment a (author
\* bob) with one reply b, whose author is '[deleted]' with flair 'Mod' and
\* whose replies value is false.
ExampleListing ==
    <<Entry("t1",
        Payload(PyStr("a"), PyStr("bob"), Absent, Absent, PyInt(5), PyStr("hi"),
          Container(<<Entry("t1",
            Payload(PyStr("b"), PyStr("[deleted]"), PyStr("Mod"), Absent,
                    PyInt(1), PyStr("yo"), PyBool(FALSE)))>>)))>>

\* Listings that break what parse_comment assumes: a comment without a
\* payload, a replies dict whose 'data' is null, 'children' that is null.
MalformedListings ==
    {<<Entry("t1", Absent)>>,
     <<Entry("t1", PlainPayload("a", PyStr(""))), Entry("t1", Absent)>>,
     <<Entry("t1", PlainPayload("a", Container(<<Entry("t1", Absent)>>)))>>,
     <<Entry("t1", PlainPayload("a", RepliesDict(PyStr("Listing"), PyNone)))>>,
     <<Entry("t1", PlainPayload("a",
          RepliesDict(PyStr("Listing"), DataDict(PyNone))))>>}

\* The payload of the post: the keys scrape_reddit_post reads.
PostPayload(title, author, subreddit, created, score, num, selftext) ==
    [title |-> title, author |-> author, subreddit |-> subreddit,
     created_utc |-> created, score |-> score, num_comments |-> num,
     selftext |-> selftext]
PlainPost ==
    PostPayload(PyStr("T"), PyStr("alice"), PyStr("python"), PyInt(1600),
                PyInt(9), PyInt(2), PyStr("text"))
PostPayloads ==
    { PostPayload(title, author, subreddit, created, score, num, selftext) :
        title \in {Absent, PyStr("T")},
        author \in {Absent, PyNone, PyStr("alice")},
        subreddit \in {Absent, PyStr("python")},
        created \in {Absent, PyNone, PyInt(1600)},
        score \in {Absent, PyNone, PyInt(9)},
        num \in {Absent, PyInt(2)},
        selftext \in {Absent, PyNone, PyStr("text")} }

\* What response.json() can hold: data[0]..children[0].data and
\* data[1].data.children.
Fetched(post, comments) == [post |-> post, comments |-> comments]
FetchedData ==
    {Fetched(PlainPost, l) :
        l \in ShapeListings \cup SentinelListings \cup FieldListings
              \cup MalformedListings \cup {ExampleListing}}
    \cup {Fetched(p, <<>>) : p \in PostPayloads}

\* ------------------------------------------------------ the tree builder

\* What a call gives: a value, or an exception that leaves the call.
Ok(v) == [ok |-> TRUE, v |-> v]
Raise(exc) == [ok |-> FALSE, exc |-> exc]

None == [t |-> "NoneType", node |-> FALSE]

\* if reply: / if comment: -- None is falsy, a comment dict (six keys) is not.
IsNode(r) == r # None

\* parse_comment and the loop that keeps its non-None results, in order
\* (the loop over reply_children and the loop over comments_data_raw).
RECURSIVE parse_comment(_)
RECURSIVE parse_each(_)

\* reply_children without the isinstance test: a truthy replies value that
\* is no dict is asked for .get, which raises.
reply_children_untyped(comment_data) ==
    LET replies == comment_data.replies IN
    IF replies # Absent /\ Truthy(replies)
    THEN IF replies.t # "dict" THEN Raise("AttributeError")
         ELSE LET inner == Get(replies, "data", DataDict(Absent)) IN
              IF inner.t # "dict" THEN Raise("AttributeError")
              ELSE LET children == Get(inner, "children", PyList(<<>>)) IN
                   IF children.t # "list" THEN Raise("TypeError")
                   ELSE Ok(children.items)
    ELSE Ok(<<>>)

\* The children that parse_comment walks for a payload: those of a replies
\* value that is present, truthy and a dict, and none otherwise.
\* {}.get on a 'data' that is no dict, and iterating 'children' that is no
\* list, raise.
reply_children(comment_data) ==
    LET replies == comment_data.replies IN
    IF replies # Absent /\ Truthy(replies) /\ replies.t = "dict"
    THEN LET inner == Get(replies, "data", DataDict(Absent)) IN
         IF inner.t # "dict" THEN Raise("AttributeError")
         ELSE LET children == Get(inner, "children", PyList(<<>>)) IN
              IF children.t # "list" THEN Raise("TypeError")
              ELSE Ok(children.items)
    ELSE Ok(<<>>)

\* flair_author that leaves the '[deleted]' placeholder without its flair.
flair_author_skip_deleted(comment_data, author) ==
    IF Truthy(Get(comment_data, "author_flair_text", PyNone))
       /\ author # PyStr("[deleted]")
    THEN PyStr(Format(author) \o " (" \o
               Format(comment_data.author_flair_text) \o ")")
    ELSE author

\* The author field after the flair annotation.
flair_author(comment_data, author) ==
    IF Truthy(Get(comment_data, "author_flair_text", PyNone))
    THEN PyStr(Format(author) \o " (" \o
               Format(comment_data.author_flair_text) \o ")")
    ELSE author

\* The comment dict before its replies are parsed.
build_comment(comment_data) ==
    [id |-> Get(comment_data, "id", PyStr("")),
     author |-> flair_author(comment_data,
                   Get(comment_data, "author", PyStr("[deleted]"))),
     timestamp |-> Get(comment_data, "created_utc", PyInt(0)),
     score |-> Get(comment_data, "score", PyInt(0)),
     text |-> Get(comment_data, "body", PyStr("")),
     replies |-> <<>>]

\* is_comment deciding by the payload instead of the kind tag.
is_comment_by_payload(comment_obj) == comment_obj.data # Absent

\* if comment_obj['kind'] != 't1': return None
is_comment(comment_obj) == comment_obj.kind = "t1"

parse_comment(comment_obj) ==
    IF ~is_comment(comment_obj) THEN Ok(None)
    ELSE IF comment_obj.data = Absent THEN Raise("KeyError")
    ELSE LET comment_data == comment_obj.data
             children == reply_children(comment_data)
         IN  IF ~children.ok THEN children
             ELSE LET replies == parse_each(children.v) IN
                  IF ~replies.ok THEN replies
                  ELSE Ok([build_comment(comment_data) EXCEPT !.replies = replies.v])

parse_each(entries) ==
    IF entries = <<>> THEN Ok(<<>>)
    ELSE LET reply == parse_comment(Head(entries)) IN
         IF ~reply.ok THEN reply
         ELSE LET rest == parse_each(Tail(entries)) IN
              IF ~rest.ok THEN rest
              ELSE Ok((IF IsNode(reply.v) THEN <<reply.v>> ELSE <<>>) \o rest.v)

\* post_data of scrape_reddit_post.
extract_post(post_data_raw, url) ==
    [title |-> Get(post_data_raw, "title", PyStr("Unknown")),
     author |-> Get(post_data_raw, "author", PyStr("Unknown")),
     subreddit |-> Get(post_data_raw, "subreddit", PyStr("Unknown")),
     timestamp |-> Get(post_data_raw, "created_utc", PyInt(0)),
     score |-> Get(post_data_raw, "score", PyInt(0)),
     url |-> PyStr(url),
     num_comments |-> Get(post_data_raw, "num_comments", PyInt(0)),
     selftext |-> Get(post_data_raw, "selftext", PyStr(""))]

\* --------------------------------------------------------- the statistics

\* count_all of scrape_reddit_post: this level's length plus the counts of
\* every node's replies.
RECURSIVE count_all(_)
RECURSIVE count_all_from(_, _)

\* count_all that forgets the replies of the replies: one level of nesting.
count_all_shallow(comments) ==
    count_all_from([i \in 1..Len(comments) |->
                      [comments[i] EXCEPT !.replies =
                         [j \in 1..Len(@) |-> [@[j] EXCEPT !.replies = <<>>]]]],
                   Len(comments))

count_all_from(comments, total) ==
    IF comments = <<>> THEN total
    ELSE count_all_from(Tail(comments), total + count_all(Head(comments).replies))
count_all(comments) == count_all_from(comments, Len(comments))

\* A stats dict that starts with an entry for depth 0.
FreshStatsSeeded == [max_depth |-> 0, by_depth |-> (0 :> 0)]

\* stats = {'max_depth': 0, 'by_depth': {}}
FreshStats == [max_depth |-> 0, by_depth |-> <<>>]

Max(a, b) == IF a >= b THEN a ELSE b

\* bump_depth that writes 1 instead of adding 1.
bump_depth_overwrite(by_depth, depth) ==
    [d \in DOMAIN by_depth \cup {depth} |->
        IF d = depth THEN 1 ELSE by_depth[d]]

\* stats['by_depth'][depth] = stats['by_depth'].get(depth, 0) + 1
bump_depth(by_depth, depth) ==
    IF depth \in DOMAIN by_depth
    THEN [by_depth EXCEPT ![depth] = @ + 1]
    ELSE by_depth @@ (depth :> 1)

\* count_comments_recursive: the returned total with the stats dict as the
\* walk leaves it.  acc carries the running total and the shared dict.
RECURSIVE count_comments_recursive(_, _, _)
RECURSIVE count_comments_loop(_, _, _)

\* count_comments_recursive whose nested calls return without their total
\* (the call made, its result not added).
count_comments_drop_nested(comments, depth, stats) ==
    LET walk == count_comments_loop(comments, depth,
                                    [total |-> 0, stats |-> stats])
    IN  [walk EXCEPT !.total = IF depth > 0 THEN 0 ELSE @]

count_comments_loop(comments, depth, acc) ==
    IF comments = <<>> THEN acc
    ELSE LET comment == Head(comments)
             seen == [max_depth |-> Max(acc.stats.max_depth, depth),
                      by_depth |-> bump_depth(acc.stats.by_depth, depth)]
             below == IF comment.replies # <<>>
                      THEN count_comments_recursive(comment.replies, depth + 1, seen)
                      ELSE [total |-> 0, stats |-> seen]
         IN  count_comments_loop(Tail(comments), depth,
                 [total |-> acc.total + 1 + below.total, stats |-> below.stats])
count_comments_recursive(comments, depth, stats) ==
    count_comments_loop(comments, depth, [total |-> 0, stats |-> stats])

\* ------------------------------------------------ scrape_reddit_post, run

\* The run of scrape_reddit_post: its position, its locals, what it returns
\* or the exception that leaves it; and the service's statistics over it.
VARIABLES pc, url, data, post_data, comments_list, total_comments, result,
          error, stats_info, stats_total

\* One /scrape request: its position, the URL of the request body, the
\* validated request.url, how often the scraper was started, what the
\* scraper process gave, and the response.
VARIABLES svc_pc, submitted, request_url, runs, proc, response

runVars == <<pc, url, data, post_data, comments_list, total_comments, result,
             error, stats_info, stats_total>>
svcVars == <<svc_pc, submitted, request_url, runs, proc, response>>
cliVars == <<cli_pc, cli_argv, cli_result, cli_stdout, cli_stderr, cli_exit>>
concVars == <<reqs>>
vars == <<runVars, svcVars, cliVars, concVars>>

Unset == [t |-> "unset"]

\* No standalone run and no concurrent requests are under way.
CliOff ==
    /\ cli_pc = "off"
    /\ cli_argv = Unset
    /\ cli_result = Unset
    /\ cli_stdout = Unset
    /\ cli_stderr = Unset
    /\ cli_exit = Unset
ConcOff == reqs = Unset

\* The URL the run is given.
GivenUrl == <<"https://", "www.", "reddit.com", "/r/", "python", "/comments/",
              "abc123", "/">>

Init ==
    /\ pc = "start"
    /\ url = GivenUrl
    /\ data = Unset
    /\ post_data = Unset
    /\ comments_list = Unset
    /\ total_comments = Unset
    /\ result = Unset
    /\ error = Unset
    /\ stats_info = Unset
    /\ stats_total = Unset
    /\ svc_pc = "off"
    /\ submitted = Unset
    /\ request_url = Unset
    /\ runs = 0
    /\ proc = Unset
    /\ response = Unset
    /\ CliOff
    /\ ConcOff

\* The URL is rewritten and the JSON document fetched.
Fetch ==
    /\ pc = "start"
    /\ url' = scraper_normalize(url)
    /\ \E d \in FetchedData : data' = d
    /\ pc' = "fetched"
    /\ UNCHANGED <<post_data, comments_list, total_comments, result, error,
                   stats_info, stats_total>>
    /\ UNCHANGED <<svcVars, cliVars, concVars>>

\* post_data = {...}
ExtractPost ==
    /\ pc = "fetched"
    /\ post_data' = extract_post(data.post, url)
    /\ pc' = "post"
    /\ UNCHANGED <<url, data, comments_list, total_comments, result, error,
                   stats_info, stats_total>>
    /\ UNCHANGED <<svcVars, cliVars, concVars>>

\* for comment_obj in comments_data_raw: ... -- the forest is built, or an
\* exception leaves scrape_reddit_post.
ParseComments ==
    /\ pc = "post"
    /\ LET parsed == parse_each(data.comments) IN
       IF parsed.ok
       THEN /\ comments_list' = parsed.v
            /\ pc' = "parsed"
            /\ UNCHANGED error
       ELSE /\ error' = parsed.exc
            /\ pc' = "raised"
            /\ UNCHANGED comments_list
    /\ UNCHANGED <<url, data, post_data, total_comments, result,
                   stats_info, stats_total>>
    /\ UNCHANGED <<svcVars, cliVars, concVars>>

\* total_comments = count_all(comments_list)
CountAll ==
    /\ pc = "parsed"
    /\ total_comments' = count_all(comments_list)
    /\ pc' = "counted"
    /\ UNCHANGED <<url, data, post_data, comments_list, result, error,
                   stats_info, stats_total>>
    /\ UNCHANGED <<svcVars, cliVars, concVars>>

\* return {'post': post_data, 'comments': comments_list}
Return ==
    /\ pc = "counted"
    /\ result' = [post |-> post_data, comments |-> comments_list]
    /\ pc' = "returned"
    /\ UNCHANGED <<url, data, post_data, comments_list, total_comments, error,
                   stats_info, stats_total>>
    /\ UNCHANGED <<svcVars, cliVars, concVars>>

\* The service's statistics over the returned forest:
\* stats_info = {...}; total_comments = count_comments_recursive(...)
Stats ==
    /\ pc = "returned"
    /\ LET walk == count_comments_recursive(result.comments, 0, FreshStats)
       IN  /\ stats_info' = walk.stats
           /\ stats_total' = walk.total
    /\ pc' = "stats"
    /\ UNCHANGED <<url, data, post_data, comments_list, total_comments, result,
                   error>>
    /\ UNCHANGED <<svcVars, cliVars, concVars>>

Next == Fetch \/ ExtractPost \/ ParseComments \/ CountAll \/ Return \/ Stats

Spec == Init /\ [][Next]_vars

\* ------------------------------------------- what the claims speak about

\* The run has built its forest (no exception left parse_comment).
Built == pc \in {"parsed", "counted", "returned", "stats"}

\* A listing as the data model describes it: every comment entry carries a
\* payload, and a replies dict holds a dict under 'data' and a list under
\* 'children' when it holds them at all.
RECURSIVE WellFormed(_)
WellFormed(L) ==
    \A i \in 1..Len(L) :
        L[i].kind = "t1" =>
            /\ L[i].data # Absent
            /\ LET r == L[i].data.replies IN
               (r.t = "dict" /\ r.data # Absent) =>
                   /\ r.data.t = "dict"
                   /\ r.data.children # Absent =>
                        /\ r.data.children.t = "list"
                        /\ WellFormed(r.data.children.items)

\* A replies value that is a non-empty object.
NonEmptyObject(r) == r.t = "dict" /\ (r.kind # Absent \/ r.data # Absent)

\* The entries listed under a replies value: those of an object's
\* data.children, none under anything else.
ListedUnder(r) ==
    IF r.t = "dict" /\ r.data.t = "dict" /\ r.data.children.t = "list"
    THEN r.data.children.items
    ELSE <<>>

HasCommentKind(e) == e.kind = "t1"
CommentsOf(L) == SelectSeq(L, HasCommentKind)

\* F is the forest of listing L: level by level, its nodes are the entries
\* of kind 't1' of L, in L's order, each with the forest of what is listed
\* under its replies value.
RECURSIVE IsForestOf(_, _)
IsForestOf(F, L) ==
    LET C == CommentsOf(L) IN
    /\ Len(F) = Len(C)
    /\ \A i \in 1..Len(C) :
          /\ C[i].data.id.t = "str" => F[i].id = C[i].data.id
          /\ IsForestOf(F[i].replies, ListedUnder(C[i].data.replies))

\* The positions of the nodes of a forest: <<i>> is the i-th top-level
\* node, <<i, j>> its j-th reply, and so on.
RECURSIVE Paths(_)
Paths(F) ==
    UNION { {<<i>>} \cup {<<i>> \o q : q \in Paths(F[i].replies)} : i \in 1..Len(F) }

\* The node of F at position p.
RECURSIVE NodeAt(_, _)
NodeAt(F, p) == IF Len(p) = 1 THEN F[p[1]] ELSE NodeAt(F[p[1]].replies, Tail(p))

NodeCount(F) == Cardinality(Paths(F))
NodesAtDepth(F, d) == Cardinality({p \in Paths(F) : Len(p) = d + 1})

\* The comments of a listing that have only comments above them.
RECURSIVE LiveComments(_)
RECURSIVE LiveFrom(_, _)
LiveFrom(L, i) ==
    IF i > Len(L) THEN 0
    ELSE (IF L[i].kind = "t1"
          THEN 1 + LiveComments(ListedUnder(L[i].data.replies))
          ELSE 0) + LiveFrom(L, i + 1)
LiveComments(L) == LiveFrom(L, 1)

\* ------------------------------------------------------------- the claims

\* C1: for every raw reply listing, the forest built has, at every nesting
\* level, exactly the entries of kind 't1' as its nodes, in the listing's
\* order; a node has children only from a replies value that is a
\* non-empty object, and any other replies value (absent, false, the empty
\* string, another non-object) gives an empty replies list and no error.
\* A raw reply listing is one of the data model: its comment entries carry
\* a payload and its reply containers are listing objects (WellFormed).
C1_ForestOfComments ==
    (pc \notin {"start", "fetched", "post"} /\ WellFormed(data.comments)) =>
        /\ pc # "raised"
        /\ IsForestOf(comments_list, data.comments)
        /\ LET C == CommentsOf(data.comments) IN
           \A i \in 1..Len(C) :
              ~NonEmptyObject(C[i].data.replies)
                  => comments_list[i].replies = <<>>

\* A comment, an entry of another kind and a second comment, in that order,
\* come out as the two comments in that order.
C1_Witness ==
    /\ pc = "parsed"
    /\ Len(data.comments) = 3
    /\ <<data.comments[1].kind, data.comments[2].kind, data.comments[3].kind>>
         = <<"t1", "more", "t1">>
    /\ Len(comments_list) = 2
    /\ comments_list[1].id = PyStr("b")
    /\ comments_list[2].id = PyStr("a")

\* C2: an entry whose kind is not 't1' never produces a node, whatever its
\* payload (none, or comment-like with nested replies): the forest, the
\* scraper's count and the service's count hold the comments that have only
\* comments above them, and nothing else.
C2_NonCommentsFiltered ==
    /\ Built => NodeCount(comments_list) = LiveComments(data.comments)
    /\ Built => \A p \in Paths(comments_list) :
                   NodeAt(comments_list, p).id # PyStr("m")
    /\ pc \in {"counted", "returned", "stats"}
          => total_comments = LiveComments(data.comments)
    /\ pc = "stats" => stats_total = LiveComments(data.comments)

\* An entry of kind 'more' with a comment nested under it, one without a
\* payload, and one comment: one node is built and counted.
C2_Witness ==
    /\ pc = "stats"
    /\ data.comments =
         <<Entry("more", MorePayload(Container(
               <<Entry("t1", PlainPayload("a", PyStr("")))>>))),
           Entry("more", Absent),
           Entry("t1", PlainPayload("b", PyStr("")))>>
    /\ Len(comments_list) = 1
    /\ comments_list[1].id = PyStr("b")
    /\ stats_total = 1

\* The payload supplies a value for a key: the key is there and not null.
Supplied(v) == v # Absent /\ v # PyNone

\* C3: no field of the Post or of a CommentNode that scrape_reddit_post
\* outputs is null: a field the payload does not supply (the key absent, or
\* present with null) carries its default -- Post author 'Unknown', comment
\* author '[deleted]', timestamp 0, score 0, body/selftext '', id ''.
C3_DefaultsNeverNull ==
    /\ pc \notin {"start", "fetched"} =>
          /\ \A f \in {"title", "author", "subreddit", "timestamp", "score",
                       "num_comments", "selftext"} : post_data[f] # PyNone
          /\ ~Supplied(data.post.author) => post_data.author = PyStr("Unknown")
          /\ ~Supplied(data.post.created_utc) => post_data.timestamp = PyInt(0)
          /\ ~Supplied(data.post.score) => post_data.score = PyInt(0)
          /\ ~Supplied(data.post.selftext) => post_data.selftext = PyStr("")
    /\ Built =>
          /\ \A p \in Paths(comments_list) :
                \A f \in {"id", "author", "timestamp", "score", "text"} :
                   NodeAt(comments_list, p)[f] # PyNone
          /\ LET C == CommentsOf(data.comments) IN
             \A i \in 1..Len(C) :
                LET raw == C[i].data
                    node == comments_list[i]
                IN  /\ ~Supplied(raw.id) => node.id = PyStr("")
                    /\ (~Supplied(raw.author) /\ ~Supplied(raw.author_flair_text))
                          => node.author = PyStr("[deleted]")
                    /\ ~Supplied(raw.created_utc) => node.timestamp = PyInt(0)
                    /\ ~Supplied(raw.score) => node.score = PyInt(0)
                    /\ ~Supplied(raw.body) => node.text = PyStr("")

\* The author a payload names, as text: the default when the key is absent.
AuthorText(raw) ==
    IF raw.author = Absent THEN "[deleted]" ELSE Format(raw.author)

HasFlair(raw) == raw.author_flair_text.t = "str" /\ raw.author_flair_text.s # ""

\* Every node of F carries the author that its entry of L asks for.
RECURSIVE AuthorsAnnotated(_, _)
AuthorsAnnotated(F, L) ==
    LET C == CommentsOf(L) IN
    \A i \in 1..Len(C) :
       LET raw == C[i].data IN
       /\ HasFlair(raw) =>
             F[i].author = PyStr(AuthorText(raw) \o " (" \o
                                 raw.author_flair_text.s \o ")")
       /\ ~HasFlair(raw) =>
             F[i].author = (IF raw.author = Absent THEN PyStr("[deleted]")
                            ELSE raw.author)
       /\ AuthorsAnnotated(F[i].replies, ListedUnder(raw.replies))

\* C4: a comment's output author is '<author> (<flair>)' exactly when the
\* payload's author_flair_text is non-empty, and the unmodified author (or
\* its default) when the flair is absent or empty; the '[deleted]'
\* placeholder is annotated too, from the payload or from the default.
C4_FlairAnnotation ==
    Built => AuthorsAnnotated(comments_list, data.comments)

\* A payload without an author and with flair 'Mod' comes out as
\* '[deleted] (Mod)'.
C4_Witness ==
    /\ pc = "parsed"
    /\ Len(data.comments) = 1
    /\ data.comments[1].kind = "t1"
    /\ data.comments[1].data.author = Absent
    /\ data.comments[1].data.author_flair_text = PyStr("Mod")
    /\ comments_list[1].author = PyStr("[deleted] (Mod)")

\* The sum over the nodes n of F of 1 + count_all(n.replies).
RECURSIVE SumOverNodes(_, _)
SumOverNodes(F, i) ==
    IF i > Len(F) THEN 0
    ELSE 1 + count_all(F[i].replies) + SumOverNodes(F, i + 1)

\* C5: count_all(F) is the sum over the nodes n of F of
\* 1 + count_all(n.replies), the number of nodes of the whole forest, and
\* the step that counts leaves the forest as it was.
C5_CountAll ==
    [][pc = "parsed" =>
         /\ comments_list' = comments_list
         /\ total_comments' = SumOverNodes(comments_list, 1)
         /\ total_comments' = NodeCount(comments_list)]_vars

\* A forest of one comment with replies below it is counted as four nodes.
C5_Witness ==
    /\ pc = "counted"
    /\ Len(comments_list) = 1
    /\ comments_list[1].replies # <<>>
    /\ total_comments = 4

\* C6: the total of count_comments_recursive(F) is count_all(F), for every
\* forest F, those whose nodes have an empty replies list included.
C6_TotalsAgree ==
    pc = "stats" =>
        /\ stats_total = total_comments
        /\ stats_total = count_all(result.comments)

\* A forest with a childless node beside a node with a reply: both walks
\* count three.
C6_Witness ==
    /\ pc = "stats"
    /\ Len(result.comments) = 2
    /\ result.comments[1].replies = <<>>
    /\ Len(result.comments[2].replies) = 1
    /\ stats_total = 3
    /\ total_comments = 3

\* The sum of the values of a mapping from depths to counts.
RECURSIVE SumOf(_)
SumOf(f) ==
    IF DOMAIN f = {} THEN 0
    ELSE LET d == CHOOSE x \in DOMAIN f : TRUE
         IN  f[d] + SumOf([x \in DOMAIN f \ {d} |-> f[x]])

\* C7: count_comments_recursive visits every node once, at its true depth:
\* by_depth[d] is the number of nodes at depth d for every depth that has a
\* node, the by_depth values sum to the returned total, and max_depth is
\* the largest depth of a node.
C7_DepthStats ==
    pc = "stats" =>
        LET F == result.comments IN
        /\ \A d \in 0..MaxNodes :
              NodesAtDepth(F, d) > 0 =>
                 /\ d \in DOMAIN stats_info.by_depth
                 /\ stats_info.by_depth[d] = NodesAtDepth(F, d)
        /\ SumOf(stats_info.by_depth) = stats_total
        /\ stats_total = NodeCount(F)
        /\ F # <<>> =>
              /\ NodesAtDepth(F, stats_info.max_depth) > 0
              /\ \A p \in Paths(F) : Len(p) - 1 <= stats_info.max_depth

\* The worked example: comment a with reply b gives total 2, max_depth 1
\* and by_depth {0: 1, 1: 1}.
C7_Witness ==
    /\ pc = "stats"
    /\ data.comments = ExampleListing
    /\ stats_total = 2
    /\ stats_info = [max_depth |-> 1, by_depth |-> (0 :> 1 @@ 1 :> 1)]

\* No node of F has a reply.
Flat(F) == \A i \in 1..Len(F) : F[i].replies = <<>>

\* C8 as stated: for every forest whose nodes are all at depth 0, the empty
\* forest included, max_depth is 0 and by_depth is {0: len(F)}.
C8_FlatForestStated ==
    (pc = "stats" /\ Flat(result.comments)) =>
        /\ stats_info.max_depth = 0
        /\ stats_info.by_depth = (0 :> Len(result.comments))

\* C8, amended: for every non-empty forest whose nodes are all at depth 0,
\* max_depth is 0 and by_depth is {0: len(F)}; for the empty forest
\* max_depth is 0 and by_depth is the empty mapping.
C8_FlatForest ==
    (pc = "stats" /\ Flat(result.comments)) =>
        /\ stats_info.max_depth = 0
        /\ stats_info.by_depth =
              (IF result.comments = <<>> THEN <<>>
               ELSE (0 :> Len(result.comments)))

\* Three comments without replies: by_depth is {0: 3}.
C8_Witness ==
    /\ pc = "stats"
    /\ Len(result.comments) = 3
    /\ Flat(result.comments)
    /\ stats_info = [max_depth |-> 0, by_depth |-> (0 :> 3)]

\* ------------------------------------------------- the /scrape service

\* JSON text, as the document it holds; NotJson is any text that is none.
JNull == [j |-> "null"]
JString(x) == [j |-> "string", s |-> x]
JNumber(n) == [j |-> "number", n |-> n]
JBool(b) == [j |-> "bool", b |-> b]
JArray(xs) == [j |-> "array", items |-> xs]
JObject(m) == [j |-> "object", members |-> m]
JsonText(doc) == [text |-> "json", doc |-> doc]
NotJson == [text |-> "other"]

\* json.dumps that writes every number as text.
dumps_scalar_as_text(v) ==
    CASE v.t = "NoneType" -> JNull
      [] v.t = "str" -> JString(v.s)
      [] v.t = "int" -> JString(ToString(v.n))
      [] v.t = "bool" -> JBool(v.b)

\* json.dumps of a value without structure.
dumps_scalar(v) ==
    CASE v.t = "NoneType" -> JNull
      [] v.t = "str" -> JString(v.s)
      [] v.t = "int" -> JNumber(v.n)
      [] v.t = "bool" -> JBool(v.b)

RECURSIVE dumps_comments(_)
dumps_comments(comments) ==
    [i \in 1..Len(comments) |->
        JObject([k \in DOMAIN comments[i] |->
                   IF k = "replies"
                   THEN JArray(dumps_comments(comments[i].replies))
                   ELSE dumps_scalar(comments[i][k])])]

\* json.dumps(result, indent=2), as the scraper prints it.
json_dumps(res) ==
    JsonText(JObject(
        [post |-> JObject([k \in DOMAIN res.post |-> dumps_scalar(res.post[k])]),
         comments |-> JArray(dumps_comments(res.comments))]))

\* json.loads of a value without structure.
loads_scalar(x) ==
    CASE x.j = "null" -> PyNone
      [] x.j = "string" -> PyStr(x.s)
      [] x.j = "number" -> PyInt(x.n)
      [] x.j = "bool" -> PyBool(x.b)
      [] x.j = "array" -> PyList(<<>>)

RECURSIVE loads_comments(_)
loads_comments(items) ==
    [i \in 1..Len(items) |->
        [k \in DOMAIN items[i].members |->
           IF k = "replies"
           THEN loads_comments(items[i].members[k].items)
           ELSE loads_scalar(items[i].members[k])]]

PyDict(m) == [t |-> "dict", members |-> m]

\* A member of the top-level object: a dict, a list of comment dicts, or a
\* value without structure; Absent when the object does not hold the key.
loads_member(x) ==
    IF x = Absent THEN Absent
    ELSE IF x.j = "object"
         THEN PyDict([k \in DOMAIN x.members |-> loads_scalar(x.members[k])])
    ELSE IF x.j = "array" THEN PyList(loads_comments(x.items))
    ELSE loads_scalar(x)

\* json_module.loads(result.stdout): the document as Python values, or
\* JSONDecodeError.
json_loads(stdout) ==
    IF stdout.text # "json" THEN Raise("JSONDecodeError")
    ELSE IF stdout.doc.j = "object"
         THEN Ok([t |-> "dict",
                  post |-> loads_member(stdout.doc.members.post),
                  comments |-> loads_member(stdout.doc.members.comments)])
         ELSE Ok(loads_scalar(stdout.doc))

\* scrape_reddit_post as one call: the result, or the exception.
scrape_reddit_post(u, fetched) ==
    LET parsed == parse_each(fetched.comments) IN
    IF ~parsed.ok THEN parsed
    ELSE Ok([post |-> extract_post(fetched.post, scraper_normalize(u)),
             comments |-> parsed.v])

\* The documents the scraper of a request can be given.
ServedListings ==
    {<<>>, ExampleListing,
     <<Entry("t1", PlainPayload("a", PyStr(""))),
       Entry("more", Absent),
       Entry("t1", PlainPayload("b", Container(
           <<Entry("t1", PlainPayload("a", Container(
               <<Entry("t1", PlainPayload("b", PyStr("")))>>)))>>)))>>}
    \cup MalformedListings
ServedData == {Fetched(PlainPost, l) : l \in ServedListings}

\* Standard output that parses as JSON and is no complete result: an array,
\* an object without 'post', without 'comments', with a 'post' that is no
\* object, with 'comments' that is no array.
IncompleteDocs ==
    {JArray(<<>>),
     JObject([post |-> Absent, comments |-> JArray(<<>>)]),
     JObject([post |-> JObject([title |-> JString("T")]), comments |-> Absent]),
     JObject([post |-> JString("T"), comments |-> JArray(<<>>)]),
     JObject([post |-> JObject([title |-> JString("T")]), comments |-> JNull])}

Exited(returncode, stdout) ==
    [kind |-> "exit", returncode |-> returncode, stdout |-> stdout]
TimedOut == [kind |-> "timeout"]

\* What subprocess.run can give for the scraper started on u: the timeout;
\* exit status 1 with nothing printed (the fetch or the parse failed) or
\* with the result printed before the failure; exit status 0 with the
\* result; and exit status 0 with other text on standard output.
ProcOutcomes(u) ==
    {TimedOut, Exited(1, NotJson), Exited(0, NotJson)}
    \cup {Exited(0, JsonText(doc)) : doc \in IncompleteDocs}
    \cup UNION { LET r == scrape_reddit_post(u, d) IN
                 IF r.ok THEN {Exited(0, json_dumps(r.v)), Exited(1, json_dumps(r.v))}
                 ELSE {Exited(1, NotJson)}
                 : d \in ServedData }

\* raise HTTPException(status_code=500, detail=...)
Http500(why) ==
    [status |-> 500, detail |-> "Failed to scrape Reddit post: " \o why]

\* The 422 that a ValueError of the field validator becomes.
Http422 == [status |-> 422, detail |-> "Invalid Reddit URL."]

\* The handler taking every exit status for success.
scraper_failed_ignored(p) == FALSE

\* if result.returncode != 0
scraper_failed(p) == p.returncode # 0

\* The body of scrape_reddit after subprocess.run: the response for what
\* the scraper process gave.  Every exception becomes the 500.
handle_outcome(u, p) ==
    IF p.kind = "timeout" THEN Http500("TimeoutExpired")
    ELSE IF scraper_failed(p) THEN Http500("Scraper failed")
    ELSE LET loaded == json_loads(p.stdout) IN
         IF ~loaded.ok THEN Http500(loaded.exc)
         ELSE LET d == loaded.v IN
              IF d.t # "dict" THEN Http500("TypeError")
              ELSE IF d.comments = Absent THEN Http500("KeyError")
              ELSE IF d.comments.t # "list" THEN Http500("TypeError")
              ELSE LET walk == count_comments_recursive(d.comments.items, 0, FreshStats) IN
                   IF d.post = Absent THEN Http500("KeyError")
                   ELSE IF d.post.t # "dict" THEN Http500("ValidationError")
                   ELSE [status |-> 200,
                         success |-> TRUE,
                         url |-> u,
                         post |-> d.post.members,
                         comments |-> d.comments.items,
                         stats |-> [total_comments |-> walk.total,
                                    top_level_comments |-> Len(d.comments.items),
                                    max_depth |-> walk.stats.max_depth,
                                    comments_by_depth |-> walk.stats.by_depth]]

\* The URLs a client can submit: a scheme, a host prefix, a host, a path.
Schemes == {<<"https://">>, <<"http://">>, <<"ftp://">>}
HostPrefixes == {<<>>, <<"www.">>, <<"old.">>, <<"www.", "old.">>, <<"x">>}
Hosts == {<<"reddit.com">>, <<"example.com">>}
UrlPaths ==
    {<<"/r/", "python", "/comments/", "abc123", "/">>,
     <<"/r/", "python">>,
     <<"/r/", "/comments/", "abc123">>,
     <<"/user/", "bob">>,
     <<"/r/", "python", "/comments/", "abc123", "?ref=", "www.", "reddit.com">>}
SubmittedUrls ==
    {sch \o pre \o host \o path :
        sch \in Schemes, pre \in HostPrefixes, host \in Hosts, path \in UrlPaths}
    \cup {<<"http://", "example.com", "/not-reddit">>}

SvcInit ==
    /\ svc_pc = "received"
    /\ submitted \in SubmittedUrls
    /\ request_url = Unset
    /\ runs = 0
    /\ proc = Unset
    /\ response = Unset
    /\ pc = "off"
    /\ url = Unset
    /\ data = Unset
    /\ post_data = Unset
    /\ comments_list = Unset
    /\ total_comments = Unset
    /\ result = Unset
    /\ error = Unset
    /\ stats_info = Unset
    /\ stats_total = Unset
    /\ CliOff
    /\ ConcOff

\* ScrapeRequest.validate_reddit_url: request.url is the rewritten URL, or
\* the request is answered with the validation error.
Validate ==
    /\ svc_pc = "received"
    /\ LET v == validator_normalize(submitted) IN
       IF url_matches(v)
       THEN /\ request_url' = v
            /\ svc_pc' = "validated"
            /\ UNCHANGED response
       ELSE /\ response' = Http422
            /\ svc_pc' = "rejected"
            /\ UNCHANGED request_url
    /\ UNCHANGED <<submitted, runs, proc>>
    /\ UNCHANGED <<runVars, cliVars, concVars>>

\* scrape_reddit starts the scraper: subprocess.run([...], timeout=60).
StartScraper ==
    /\ svc_pc = "validated"
    /\ runs' = runs + 1
    /\ svc_pc' = "running"
    /\ UNCHANGED <<submitted, request_url, proc, response>>
    /\ UNCHANGED <<runVars, cliVars, concVars>>

\* subprocess.run returns, or raises TimeoutExpired.
ScraperEnds ==
    /\ svc_pc = "running"
    /\ \E p \in ProcOutcomes(request_url) : proc' = p
    /\ svc_pc' = "ran"
    /\ UNCHANGED <<submitted, request_url, runs, response>>
    /\ UNCHANGED <<runVars, cliVars, concVars>>

\* The rest of scrape_reddit: the ScrapeResponse, or the HTTPException.
Respond ==
    /\ svc_pc = "ran"
    /\ response' = handle_outcome(request_url, proc)
    /\ svc_pc' = "responded"
    /\ UNCHANGED <<submitted, request_url, runs, proc>>
    /\ UNCHANGED <<runVars, cliVars, concVars>>

SvcNext == Validate \/ StartScraper \/ ScraperEnds \/ Respond

SvcSpec == SvcInit /\ [][SvcNext]_vars

\* The pattern https?://old.reddit.com/r/<community>/comments/ at the start
\* of a URL.
IsThreadUrl(v) ==
    \E k \in 6..Len(v) :
       /\ v[1] \in {"http://", "https://"}
       /\ <<v[2], v[3], v[4]>> = <<"old.", "reddit.com", "/r/">>
       /\ \A i \in 5..(k - 1) : v[i] \in WordTokens
       /\ v[k] = "/comments/"

\* C9: a request whose URL, rewritten to the old.reddit.com host form, does
\* not match https?://old.reddit.com/r/<community>/comments/ is rejected
\* with a client error and the scraper is never started for it; the
\* scraper is started only after validation has succeeded.
C9_RejectedBeforeScraper ==
    /\ (svc_pc \notin {"off", "received"}
        /\ ~IsThreadUrl(validator_normalize(submitted)))
          => /\ svc_pc = "rejected"
             /\ response.status \in 400..499
             /\ runs = 0
             /\ proc = Unset
    /\ runs > 0 =>
          /\ svc_pc \in {"running", "ran", "responded"}
          /\ IsThreadUrl(request_url)
    /\ svc_pc = "rejected" => runs = 0

\* http://example.com/not-reddit is rejected and no scraper was started.
C9_Witness ==
    /\ svc_pc = "rejected"
    /\ submitted = <<"http://", "example.com", "/not-reddit">>
    /\ response.status = 422
    /\ runs = 0

\* The scraper process failed, or its output is no complete result.
ScraperFailure(p) ==
    \/ p.kind = "timeout"
    \/ p.returncode # 0
    \/ p.stdout.text # "json"
    \/ p.stdout.doc.j # "object"
    \/ p.stdout.doc.members.post = Absent
    \/ p.stdout.doc.members.comments = Absent

\* C10: a validated request ends in exactly one of two outcomes: success
\* with the complete post, the complete forest and the stats, or a 500 with
\* a detail message and no post or comment data.  A scraper that exits
\* non-zero or times out, output that is no JSON, and a result without
\* 'post' or 'comments' give the 500; the scraper is run at most once.
C10_SuccessOrServerError ==
    /\ runs <= 1
    /\ svc_pc = "responded" =>
          /\ runs = 1
          /\ response.status \in {200, 500}
          /\ ScraperFailure(proc) => response.status = 500
          /\ response.status = 500 =>
                /\ DOMAIN response = {"status", "detail"}
                /\ response.detail # ""
          /\ response.status = 200 =>
                /\ proc.kind = "exit" /\ proc.returncode = 0
                /\ \E d \in ServedData :
                      LET r == scrape_reddit_post(request_url, d) IN
                      /\ r.ok
                      /\ response.post = r.v.post
                      /\ response.comments = r.v.comments
                      /\ response.stats.total_comments = NodeCount(r.v.comments)
                      /\ response.stats.top_level_comments = Len(r.v.comments)

\* The worked example is served: a success carrying both comments.
C10_Witness ==
    /\ svc_pc = "responded"
    /\ response.status = 200
    /\ response.success
    /\ Len(response.comments) = 1
    /\ Len(response.comments[1].replies) = 1
    /\ response.stats.total_comments = 2
    /\ runs = 1

\* C12: on every successful service request the 'url' field of the response
\* equals the URL the client submitted, for every accepted input form
\* (reddit.com, www.reddit.com and old.reddit.com hosts).
C12_UrlEchoed ==
    (svc_pc = "responded" /\ response.status = 200) =>
        response.url = submitted

\* --------------------------------------- reading the output document back

\* The keys parse_comment reads from a comment payload, and the keys
\* scrape_reddit_post reads from the post payload.
CommentKeys ==
    {"id", "author", "author_flair_text", "created_utc", "score", "body",
     "replies"}
PostKeys ==
    {"title", "author", "subreddit", "created_utc", "score", "num_comments",
     "selftext"}

\* A dict of the output document looked up by payload keys: the value the
\* dict holds under a key, Absent under a key it does not hold.
read_as(keys, d) ==
    [k \in keys |->
        IF k \in DOMAIN d
        THEN (IF k = "replies" THEN PyList(d[k]) ELSE d[k])
        ELSE Absent]

\* parse_comment without the kind-tag test, over the dicts of an output
\* forest: the fields by the payload keys and defaults, the children those
\* of reply_children.
RECURSIVE reparse_comments(_)
reparse_comments(dicts) ==
    [i \in 1..Len(dicts) |->
        LET comment_data == read_as(CommentKeys, dicts[i])
            children == reply_children(comment_data)
        IN  [build_comment(comment_data) EXCEPT
                !.replies = IF children.ok THEN reparse_comments(children.v)
                            ELSE <<>>]]

\* The output document of res, serialized, loaded and extracted again.
round_trip(res) ==
    LET loaded == json_loads(json_dumps(res)).v IN
    [post |-> extract_post(read_as(PostKeys, loaded.post.members),
                           scraper_normalize(loaded.post.members.url.s)),
     comments |-> reparse_comments(loaded.comments.items)]

\* A comment as the round trip gives it back: timestamp, text and replies
\* are the defaults.
Defaulted(comment) ==
    [comment EXCEPT !.timestamp = PyInt(0), !.text = PyStr(""), !.replies = <<>>]

\* C13 as stated: for every ScrapeResult R of scrape_reddit_post,
\* serializing R to the output JSON and re-parsing it with the tree
\* builder's field-extraction rules (kind-tag filter ignored) recovers a
\* Post and CommentNodes equal to those of R in id, author, timestamp,
\* score, body text and children.
C13_RoundTripStated ==
    result # Unset => round_trip(result) = result

\* C13, amended: the round trip recovers the top-level comments of R with
\* their id, author and score, and the Post with its title, author,
\* subreddit, score, url, num_comments and selftext; the timestamp of the
\* Post and of every comment comes back as 0, every text as '' and every
\* replies list as empty, because the output keys 'timestamp', 'text' and
\* the list-valued 'replies' are not the payload keys 'created_utc', 'body'
\* and the dict-valued 'replies'.
C13_RoundTrip ==
    result # Unset =>
        LET back == round_trip(result) IN
        /\ back.post = [result.post EXCEPT !.timestamp = PyInt(0)]
        /\ Len(back.comments) = Len(result.comments)
        /\ \A i \in 1..Len(result.comments) :
              back.comments[i] = Defaulted(result.comments[i])

\* A returned result with a nested reply, a timestamp and a text, all three
\* of which the round trip loses while it keeps id, author and score.
C13_Witness ==
    /\ result # Unset
    /\ \E i \in 1..Len(result.comments) :
          /\ result.comments[i].replies # <<>>
          /\ result.comments[i].timestamp = PyInt(1700)
          /\ result.comments[i].text = PyStr("hi")
          /\ result.comments[i].score = PyInt(5)
          /\ round_trip(result).comments[i] = Defaulted(result.comments[i])
          /\ round_trip(result).comments[i] # result.comments[i]

\* ------------------------------------------------- the standalone run

\* print_comment_tree(comments, indent): one line per node, the replies of
\* a node under it, one level deeper.
RECURSIVE tree_lines(_, _)
tree_lines(comments, indent) ==
    IF comments = <<>> THEN <<>>
    ELSE LET comment == Head(comments) IN
         <<[indent |-> indent, author |-> comment.author, score |-> comment.score]>>
         \o (IF comment.replies # <<>>
             THEN tree_lines(comment.replies, indent + 1)
             ELSE <<>>)
         \o tree_lines(Tail(comments), indent)

\* What is written to the diagnostic stream.
UsageLine == [line |-> "usage"]
ProgressLines == [line |-> "progress"]
SummaryLines == [line |-> "summary"]
TreeLines(comments) == [line |-> "tree", nodes |-> tree_lines(comments, 0)]
ErrorLine(exc) == [line |-> "error", exc |-> exc]

\* The URLs a run is started on, and the documents it can be given.
CliUrls ==
    {<<sch, "reddit.com", "/r/", "python", "/comments/", "abc123", "/">>
        : sch \in {"https://", "http://"}}
    \cup {<<"https://", pre, "reddit.com", "/r/", "python", "/comments/", "abc123">>
        : pre \in {"www.", "old."}}
CliData ==
    {Fetched(PlainPost, l) : l \in ServedListings \cup SentinelListings}

CliInit ==
    /\ cli_pc = "start"
    /\ cli_argv \in {<<>>} \cup {<<u>> : u \in CliUrls}
    /\ cli_result = Unset
    /\ cli_stdout = <<>>
    /\ cli_stderr = <<>>
    /\ cli_exit = Unset
    /\ pc = "off"
    /\ url = Unset
    /\ data = Unset
    /\ post_data = Unset
    /\ comments_list = Unset
    /\ total_comments = Unset
    /\ result = Unset
    /\ error = Unset
    /\ stats_info = Unset
    /\ stats_total = Unset
    /\ svc_pc = "off"
    /\ submitted = Unset
    /\ request_url = Unset
    /\ runs = 0
    /\ proc = Unset
    /\ response = Unset
    /\ ConcOff

\* except Exception as e: print(f"Error: {e}", file=sys.stderr); sys.exit(1)
\* -- what was written to standard output before stays written.
CliFail(exc) ==
    /\ cli_stderr' = Append(cli_stderr, ErrorLine(exc))
    /\ cli_exit' = 1
    /\ cli_pc' = "exited"

\* if len(sys.argv) < 2: usage and exit status 1.
CliCheckArgs ==
    /\ cli_pc = "start"
    /\ IF Len(cli_argv) < 1
       THEN /\ cli_stderr' = Append(cli_stderr, UsageLine)
            /\ cli_exit' = 1
            /\ cli_pc' = "exited"
       ELSE /\ cli_pc' = "running"
            /\ UNCHANGED <<cli_stderr, cli_exit>>
    /\ UNCHANGED <<cli_argv, cli_result, cli_stdout>>
    /\ UNCHANGED <<runVars, svcVars, concVars>>

\* result = scrape_reddit_post(url): the fetch fails, the document is not
\* the pair of listings, parse_comment raises, or the result is returned.
CliScrape ==
    /\ cli_pc = "running"
    /\ \/ \E exc \in {"RequestException", "IndexError"} :
             /\ CliFail(exc)
             /\ UNCHANGED cli_result
       \/ \E d \in CliData :
             LET r == scrape_reddit_post(cli_argv[1], d) IN
             IF r.ok
             THEN /\ cli_result' = r.v
                  /\ cli_stderr' = Append(cli_stderr, ProgressLines)
                  /\ cli_pc' = "scraped"
                  /\ UNCHANGED cli_exit
             ELSE /\ CliFail(r.exc)
                  /\ UNCHANGED cli_result
    /\ UNCHANGED <<cli_argv, cli_stdout>>
    /\ UNCHANGED <<runVars, svcVars, concVars>>

\* print(json.dumps(result, indent=2)): the document is written to standard
\* output, or the call raises and nothing is written.
CliEmit ==
    /\ cli_pc = "scraped"
    /\ \/ /\ cli_stdout' = Append(cli_stdout, json_dumps(cli_result))
          /\ cli_pc' = "emitted"
          /\ UNCHANGED <<cli_stderr, cli_exit>>
       \/ /\ CliFail("OSError")
          /\ UNCHANGED cli_stdout
    /\ UNCHANGED <<cli_argv, cli_result>>
    /\ UNCHANGED <<runVars, svcVars, concVars>>

\* The POST SUMMARY prints to the diagnostic stream: written, or a print
\* raises.
CliSummary ==
    /\ cli_pc = "emitted"
    /\ \/ /\ cli_stderr' = Append(cli_stderr, SummaryLines)
          /\ cli_pc' = "summarised"
          /\ UNCHANGED cli_exit
       \/ CliFail("OSError")
    /\ UNCHANGED <<cli_argv, cli_result, cli_stdout>>
    /\ UNCHANGED <<runVars, svcVars, concVars>>

\* print_comment_tree(result['comments']) and the end of the module: the
\* tree is written and the run exits with status 0, or a print raises.
CliTree ==
    /\ cli_pc = "summarised"
    /\ \/ /\ cli_stderr' = Append(cli_stderr, TreeLines(cli_result.comments))
          /\ cli_exit' = 0
          /\ cli_pc' = "exited"
       \/ CliFail("OSError")
    /\ UNCHANGED <<cli_argv, cli_result, cli_stdout>>
    /\ UNCHANGED <<runVars, svcVars, concVars>>

CliNext == CliCheckArgs \/ CliScrape \/ CliEmit \/ CliSummary \/ CliTree

CliSpec == CliInit /\ [][CliNext]_vars

\* An error message is on the diagnostic stream.
ErrorReported ==
    \E i \in 1..Len(cli_stderr) : cli_stderr[i].line \in {"error", "usage"}

\* C11: a standalone run ends in exactly one of two outcomes: exit status 0
\* with the complete ScrapeResult document as the only thing on standard
\* output, or a non-zero exit status with an error message on the
\* diagnostic stream and no ScrapeResult on standard output -- whichever
\* step fails (argument, fetch, parsing, JSON emission, summary and tree).
C11_ResultOrError ==
    cli_pc = "exited" =>
        \/ /\ cli_exit = 0
           /\ cli_stdout = <<json_dumps(cli_result)>>
        \/ /\ cli_exit # 0
           /\ ErrorReported
           /\ cli_stdout = <<>>

\* --------------------------------------------- several requests at once

\* The requests in flight together.
NumRequests == 2
Requests == 1..NumRequests

\* The URLs submitted, and what the scraper of a request can give.
ConcUrls ==
    {<<"https://", pre, "reddit.com", "/r/", "python", "/comments/", "abc123", "/">>
        : pre \in {"www.", "old."}}
    \cup {<<"https://", "reddit.com", "/user/", "bob">>}
ConcListings ==
    {<<>>, ExampleListing,
     <<Entry("t1", PlainPayload("a", PyStr(""))),
       Entry("t1", PlainPayload("b", PyStr("")))>>}
ConcOutcomes(u) ==
    {TimedOut, Exited(1, NotJson)}
    \cup {Exited(0, json_dumps(scrape_reddit_post(u, Fetched(PlainPost, l)).v))
            : l \in ConcListings}

\* A request as it arrives: the locals of its handler are not yet bound.
Request(u) ==
    [pc |-> "received", submitted |-> u, request_url |-> Unset, runs |-> 0,
     proc |-> Unset, response |-> Unset]

ConcInit ==
    /\ reqs \in [Requests -> {Request(u) : u \in ConcUrls}]
    /\ pc = "off"
    /\ url = Unset
    /\ data = Unset
    /\ post_data = Unset
    /\ comments_list = Unset
    /\ total_comments = Unset
    /\ result = Unset
    /\ error = Unset
    /\ stats_info = Unset
    /\ stats_total = Unset
    /\ svc_pc = "off"
    /\ submitted = Unset
    /\ request_url = Unset
    /\ runs = 0
    /\ proc = Unset
    /\ response = Unset
    /\ CliOff

\* ScrapeRequest.validate_reddit_url for request i.
ConcValidate(i) ==
    /\ reqs[i].pc = "received"
    /\ LET v == validator_normalize(reqs[i].submitted) IN
       IF url_matches(v)
       THEN reqs' = [reqs EXCEPT ![i].request_url = v, ![i].pc = "validated"]
       ELSE reqs' = [reqs EXCEPT ![i].response = Http422, ![i].pc = "rejected"]
    /\ UNCHANGED <<runVars, svcVars, cliVars>>

\* The handler of request i starts its scraper process.
ConcStartScraper(i) ==
    /\ reqs[i].pc = "validated"
    /\ reqs' = [reqs EXCEPT ![i].runs = @ + 1, ![i].pc = "running"]
    /\ UNCHANGED <<runVars, svcVars, cliVars>>

\* subprocess.run of request i returns, or raises TimeoutExpired.
ConcScraperEnds(i) ==
    /\ reqs[i].pc = "running"
    /\ \E p \in ConcOutcomes(reqs[i].request_url) :
          reqs' = [reqs EXCEPT ![i].proc = p, ![i].pc = "ran"]
    /\ UNCHANGED <<runVars, svcVars, cliVars>>

\* The handler of request i walking with a stats dict that another request
\* has already filled, where there is one.
ConcRespondShared(i) ==
    /\ reqs[i].pc = "ran"
    /\ LET r == handle_outcome(reqs[i].request_url, reqs[i].proc)
           filled == {j \in Requests \ {i} :
                        /\ reqs[j].pc = "responded"
                        /\ reqs[j].response.status = 200}
       IN  IF r.status = 200 /\ filled # {}
           THEN \E j \in filled :
                  LET seed == [max_depth |-> reqs[j].response.stats.max_depth,
                               by_depth |->
                                  reqs[j].response.stats.comments_by_depth]
                      walk == count_comments_recursive(r.comments, 0, seed)
                  IN  reqs' = [reqs EXCEPT
                         ![i].pc = "responded",
                         ![i].response =
                            [r EXCEPT !.stats =
                               [total_comments |-> walk.total,
                                top_level_comments |-> Len(r.comments),
                                max_depth |-> walk.stats.max_depth,
                                comments_by_depth |-> walk.stats.by_depth]]]
           ELSE reqs' = [reqs EXCEPT ![i].pc = "responded", ![i].response = r]
    /\ UNCHANGED <<runVars, svcVars, cliVars>>

\* The rest of the handler of request i: json loads, a stats dict of its
\* own, the walk, and the ScrapeResponse or the HTTPException.
ConcRespond(i) ==
    /\ reqs[i].pc = "ran"
    /\ reqs' = [reqs EXCEPT
          ![i].pc = "responded",
          ![i].response = handle_outcome(reqs[i].request_url, reqs[i].proc)]
    /\ UNCHANGED <<runVars, svcVars, cliVars>>

ConcNext ==
    \E i \in Requests :
        \/ ConcValidate(i)
        \/ ConcStartScraper(i)
        \/ ConcScraperEnds(i)
        \/ ConcRespond(i)

ConcSpec == ConcInit /\ [][ConcNext]_vars

\* Request i has been answered with a ScrapeResponse.
Answered(i) == reqs[i].pc = "responded" /\ reqs[i].response.status = 200

\* The greatest depth at which F has a node, 0 for the empty forest.
DeepestLevel(F) ==
    IF F = <<>> THEN 0
    ELSE CHOOSE d \in 0..MaxNodes :
           /\ NodesAtDepth(F, d) > 0
           /\ \A e \in 0..MaxNodes : NodesAtDepth(F, e) > 0 => e <= d

\* C14: when several requests are handled concurrently, in any
\* interleaving of their steps, the response of each (post, comment forest,
\* total_comments, max_depth, comments_by_depth) depends only on that
\* request's own URL and fetched payload: it carries the post and the
\* forest its own scraper printed, its statistics are those of that forest
\* alone, and two requests with the same URL and the same scraper output
\* get the same response whatever the other requests did.
C14_RequestsIndependent ==
    /\ \A i \in Requests :
          Answered(i) =>
             LET r == reqs[i].response
                 own == json_loads(reqs[i].proc.stdout).v
                 F == own.comments.items
             IN  /\ r.url = reqs[i].request_url
                 /\ r.post = own.post.members
                 /\ r.comments = F
                 /\ r.stats.total_comments = NodeCount(F)
                 /\ r.stats.top_level_comments = Len(F)
                 /\ r.stats.max_depth = DeepestLevel(F)
                 /\ DOMAIN r.stats.comments_by_depth =
                       {d \in 0..MaxNodes : NodesAtDepth(F, d) > 0}
                 /\ \A d \in DOMAIN r.stats.comments_by_depth :
                       r.stats.comments_by_depth[d] = NodesAtDepth(F, d)
    /\ \A i, j \in Requests :
          (/\ reqs[i].pc = "responded"
           /\ reqs[j].pc = "responded"
           /\ reqs[i].request_url = reqs[j].request_url
           /\ reqs[i].proc = reqs[j].proc)
          => reqs[i].response = reqs[j].response

\* Two requests answered together, the first over a forest of two levels
\* and the second over the empty forest: the second response counts none
\* of the first's nodes.
C14_Witness ==
    /\ Answered(1)
    /\ Answered(2)
    /\ reqs[1].response.stats.total_comments = 2
    /\ reqs[1].response.stats.max_depth = 1
    /\ reqs[2].response.comments = <<>>
    /\ reqs[2].response.stats.total_comments = 0
    /\ reqs[2].response.stats.comments_by_depth = <<>>

====
